---- MODULE Spec2Model ----
(***************************************************************************)
(* Model of plat/st/stm32mp1/bl2_io_storage.c: the one-time storage stack  *)
(* bring-up stm32mp1_io_setup() and the image source resolver              *)
(* plat_get_image_source().                                                *)
(*                                                                         *)
(* stm32mp1_io_setup() is straight-line code; it is cut into one step per  *)
(* backend call, each step made of the call and of the assert()/panic()    *)
(* test that follows it.  The backends (IO framework, SDMMC driver,        *)
(* partition parser) are not part of the file: every call into them        *)
(* returns success or failure nondeterministically.                        *)
(*                                                                         *)
(* assert() only halts in builds with ENABLE_ASSERTIONS=1 (the file        *)
(* declares io_result __unused for the other builds); panic() halts in     *)
(* every build.  The build is chosen in Init.                              *)
(***************************************************************************)
EXTENDS Integers, Sequences, FiniteSets

VARIABLES
    ENABLE_ASSERTIONS,        \* build option: does assert() halt?
    boot_context,             \* boot_api_context_t read at line 178
    pc,                       \* position in stm32mp1_io_setup
    dummy_dev_con,            \* line 32
    mmc_dev_con,              \* line 59
    stm32image_dev_con,       \* line 94
    handles,                  \* the three uintptr_t handle slots, by name
    open_devs,                \* device sessions the IO framework holds open
    closed_devs,              \* device sessions that were closed
    params,                   \* struct stm32_sdmmc2_params given to the driver
    mmc_inited,               \* stm32_sdmmc2_mmc_init() returned 0
    partitions,               \* table built by partition_init()
    partition_done,           \* partition_init() has returned
    stm32image_dev_info_spec, \* lines 81-87
    backfilled,               \* part_info indexes written by lines 263-264
    policies,                 \* lines 106-132
    called_id,                \* image_id of the last plat_get_image_source
    probed,                   \* handle the last check gave to io_dev_init
    check_rc,                 \* what the last check returned (line 306)
    ret,                      \* return value of the last plat_get_image_source
    res_dev_handle,           \* *dev_handle of the last call
    res_image_spec,           \* *image_spec of the last call
    log,                      \* INFO/WARN/ERROR messages emitted
    writes,                   \* number of stores to each handle slot
    faults                    \* backend calls that failed so far

vars == <<ENABLE_ASSERTIONS, boot_context, pc, dummy_dev_con, mmc_dev_con,
          stm32image_dev_con, handles, open_devs, closed_devs, params,
          mmc_inited, partitions, partition_done, stm32image_dev_info_spec,
          backfilled, policies, called_id, probed, check_rc, ret,
          res_dev_handle,
          res_image_spec, log, writes, faults>>

----------------------------------------------------------------------------
(* Bounds of the model *)

\* largest boot_interface_instance the boot ROM may report
MaxInstance == 4
\* largest number of entries of a discovered partition table
MaxParts == 2
\* largest number of backend calls that fail in one run of the setup
MaxFaults == 1

----------------------------------------------------------------------------
(* Program constants *)

NULL == "NULL"

\* called_id and ret before the first call of plat_get_image_source
NONE == 0 - 1

\* boot_interface_selected values tested at lines 152, 155, 197, 198
FLASH_SD == "BOOT_API_CTX_BOOT_INTERFACE_SEL_FLASH_SD"
FLASH_EMMC == "BOOT_API_CTX_BOOT_INTERFACE_SEL_FLASH_EMMC"
\* the values print_boot_device does not list
OtherInterfaces == {"BOOT_API_CTX_BOOT_INTERFACE_SEL_FLASH_NAND_FMC"}
BootInterfaces == {FLASH_SD, FLASH_EMMC} \cup OtherInterfaces

STM32MP1_SDMMC1_BASE == "STM32MP1_SDMMC1_BASE"
STM32MP1_SDMMC2_BASE == "STM32MP1_SDMMC2_BASE"
STM32MP1_SDMMC3_BASE == "STM32MP1_SDMMC3_BASE"
MMC_IS_EMMC == "MMC_IS_EMMC"
MMC_IS_SD == "MMC_IS_SD"

\* image identifiers used as designated initializers of policies[]; of their
\* values only the order and the gaps between them matter here
BL2_IMAGE_ID == 1
BL32_IMAGE_ID == 4
BL33_IMAGE_ID == 5
GPT_IMAGE_ID == 28
STM32_IMAGE_ID == 29

BL33_IMAGE_NAME == "ssbl"
BL33_BINARY_TYPE == "BL33_BINARY_TYPE"

\* enum { IMG_IDX_BL33, IMG_IDX_NUM }
IMG_IDX_BL33 == 0
IMG_IDX_NUM == 1

\* the handle slots, named as the variables of the file
SlotNames == {"dummy_dev_handle", "storage_dev_handle", "image_dev_handle"}

\* connectors the register_io_dev_* functions hand out, and the device each
\* connector opens
Connectors == {"dummy_dev_connector", "block_dev_connector",
               "mmc_dev_connector", "stm32image_dev_connector"}

DevOf(con) ==
    CASE con = "dummy_dev_connector" -> "dummy_dev"
      [] con = "block_dev_connector" -> "block_dev"
      [] con = "mmc_dev_connector" -> "mmc_dev"
      [] con = "stm32image_dev_connector" -> "stm32image_dev"

\* what a slot can hold when a call went through a connector that was never
\* registered
GARBAGE == "GARBAGE"

\* error codes of the IO framework (negative errno values)
Errors == {-2, -19}

\* sizes stm32_sdmmc2_mmc_get_device_size() may report
DeviceSizes == {4096, 8192}

\* names and start offsets a partition table entry may carry
PartNames == {BL33_IMAGE_NAME, "fsbl1"}
PartStarts == {100, 500}
PartEntries == [name : PartNames, start : PartStarts]

RECURSIVE SeqsUpTo(_, _)
SeqsUpTo(S, n) ==
    IF n = 0 THEN {<< >>}
    ELSE LET shorter == SeqsUpTo(S, n - 1)
         IN  shorter \cup {Append(s, e) : s \in {t \in shorter : Len(t) = n - 1},
                                          e \in S}

PartitionTables == SeqsUpTo(PartEntries, MaxParts)

----------------------------------------------------------------------------
(* Static data of the file *)

\* static const struct plat_io_policy policies[]: designated initializers at
\* five identifiers; every other element of the array is zero
NoPolicy == [dev_handle |-> NULL, image_spec |-> NULL, check |-> NULL]

ARRAY_SIZE_policies == STM32_IMAGE_ID + 1

policies_init ==
    [id \in 0 .. (ARRAY_SIZE_policies - 1) |->
        CASE id = BL2_IMAGE_ID ->
               [dev_handle |-> "dummy_dev_handle",
                image_spec |-> "bl2_block_spec",
                check |-> "open_dummy"]
          [] id = BL32_IMAGE_ID ->
               [dev_handle |-> "dummy_dev_handle",
                image_spec |-> "bl32_block_spec",
                check |-> "open_dummy"]
          [] id = BL33_IMAGE_ID ->
               [dev_handle |-> "image_dev_handle",
                image_spec |-> "bl33_partition_spec",
                check |-> "open_image"]
          [] id = GPT_IMAGE_ID ->
               [dev_handle |-> "storage_dev_handle",
                image_spec |-> "gpt_block_spec",
                check |-> "open_storage"]
          [] id = STM32_IMAGE_ID ->
               [dev_handle |-> "storage_dev_handle",
                image_spec |-> "stm32image_block_spec",
                check |-> "open_storage"]
          [] OTHER -> NoPolicy]

\* identifiers that carry a designated initializer
PolicyIds == {BL2_IMAGE_ID, BL32_IMAGE_ID, BL33_IMAGE_ID, GPT_IMAGE_ID,
              STM32_IMAGE_ID}

\* identifiers callers are modelled to pass: the populated ones, one
\* identifier of the array without initializer, one past the array
ImageIdInputs == PolicyIds \cup {0, ARRAY_SIZE_policies}

\* static struct stm32image_device_info stm32image_dev_info_spec
stm32image_dev_info_spec_init ==
    [device_size |-> 0,
     part_info |-> [idx \in 0 .. (IMG_IDX_NUM - 1) |->
                       [name |-> BL33_IMAGE_NAME,
                        binary_type |-> BL33_BINARY_TYPE,
                        part_offset |-> 0,
                        bkp_offset |-> 0]]]

\* the handle slots as the file names them
dummy_dev_handle == handles["dummy_dev_handle"]
storage_dev_handle == handles["storage_dev_handle"]
image_dev_handle == handles["image_dev_handle"]

----------------------------------------------------------------------------
(* Initial state: static initializers, before stm32mp1_io_setup runs *)

NoParams == [reg_base |-> NULL, mmc_dev_type |-> NULL]

Init ==
    /\ ENABLE_ASSERTIONS \in BOOLEAN
    /\ boot_context \in [boot_interface_selected : BootInterfaces,
                         boot_interface_instance : 0 .. MaxInstance]
    /\ pc = "print_boot_device"
    /\ dummy_dev_con = NULL
    /\ mmc_dev_con = NULL
    /\ stm32image_dev_con = NULL
    /\ handles = [s \in SlotNames |-> NULL]
    /\ open_devs = {}
    /\ closed_devs = {}
    /\ params = NoParams
    /\ mmc_inited = FALSE
    /\ partitions = << >>
    /\ partition_done = FALSE
    /\ stm32image_dev_info_spec = stm32image_dev_info_spec_init
    /\ backfilled = {}
    /\ policies = policies_init
    /\ called_id = NONE
    /\ probed = NULL
    /\ check_rc = NONE
    /\ ret = NONE
    /\ res_dev_handle = "UNWRITTEN"
    /\ res_image_spec = "UNWRITTEN"
    /\ log = {}
    /\ writes = [s \in SlotNames |-> 0]
    /\ faults = 0

build_vars == <<ENABLE_ASSERTIONS, boot_context, policies>>
con_vars == <<dummy_dev_con, mmc_dev_con, stm32image_dev_con>>
dev_vars == <<handles, open_devs, closed_devs, writes>>
mmc_vars == <<params, mmc_inited>>
part_vars == <<partitions, partition_done, stm32image_dev_info_spec,
               backfilled>>
resolver_vars == <<called_id, probed, check_rc, ret, res_dev_handle,
                   res_image_spec>>

----------------------------------------------------------------------------
(* Backend calls *)

\* a backend call may fail while the fault budget lasts
CanFail == faults < MaxFaults

\* a variant of after_assert in which a failed call is made again
after_assert_retry(ok, next) ==
    IF ok THEN next ELSE pc

\* assert(io_result == 0): halts only in builds with assertions
after_assert(ok, next) ==
    IF ok \/ ~ENABLE_ASSERTIONS THEN next ELSE "panic"

\* outcomes of io_dev_open(con, spec, &slot).  Through a connector that was
\* never registered (NULL) the call dereferences a null pointer: it may
\* abort, return an error, or return 0 with an arbitrary handle.
OpenOutcomes(con) ==
    IF con = NULL THEN {"fail", "abort", "garbage"}
    ELSE {"ok"} \cup (IF CanFail THEN {"fail"} ELSE {})

io_dev_open(con, slot, o, next) ==
    /\ handles' = CASE o = "ok" -> [handles EXCEPT ![slot] = DevOf(con)]
                    [] o = "garbage" -> [handles EXCEPT ![slot] = GARBAGE]
                    [] OTHER -> handles
    /\ writes' = IF o \in {"ok", "garbage"}
                 THEN [writes EXCEPT ![slot] = @ + 1]
                 ELSE writes
    /\ open_devs' = IF o = "ok" THEN open_devs \cup {DevOf(con)} ELSE open_devs
    /\ faults' = IF o = "fail" /\ con # NULL THEN faults + 1 ELSE faults
    /\ pc' = IF o = "abort" THEN "panic" ELSE after_assert(o # "fail", next)

\* outcomes of io_dev_close(handle).  On a handle that is no open session
\* the call works on an invalid pointer.
CloseOutcomes(h) ==
    IF h \in open_devs
    THEN {"ok"} \cup (IF CanFail THEN {"fail"} ELSE {})
    ELSE {"ok", "fail", "abort"}

io_dev_close(h, o, next) ==
    /\ open_devs' = IF o = "ok" THEN open_devs \ {h} ELSE open_devs
    /\ closed_devs' = IF o = "ok" /\ h \in open_devs
                      THEN closed_devs \cup {h}
                      ELSE closed_devs
    /\ faults' = IF o = "fail" /\ h \in open_devs THEN faults + 1 ELSE faults
    /\ pc' = IF o = "abort" THEN "panic" ELSE after_assert(o = "ok", next)

\* the null pointer get_partition_entry returns
NULL_ENTRY == [name |-> NULL]

\* get_partition_entry(name): the first entry of the table with that name,
\* NULL when there is none
get_partition_entry(name) ==
    LET hits == {i \in DOMAIN partitions : partitions[i].name = name}
    IN  IF hits = {} THEN NULL_ENTRY
        ELSE partitions[CHOOSE i \in hits : \A j \in hits : i <= j]

----------------------------------------------------------------------------
(* stm32mp1_io_setup, lines 169-291 *)

recognized(kind) == kind \in {FLASH_SD, FLASH_EMMC}

\* a variant of next_step that leaves the lookup loop of lines 254-265 out
next_step_without_lookup(step) ==
    CASE step = "print_boot_device" -> "register_io_dev_dummy"
      [] step = "register_io_dev_dummy" -> "io_dev_open_dummy"
      [] step = "io_dev_open_dummy" -> "switch"
      [] step = "switch" -> "register_io_dev_block"
      [] step = "register_io_dev_block" -> "io_dev_open_block"
      [] step = "io_dev_open_block" -> "partition_init"
      [] step = "partition_init" -> "io_dev_close_storage"
      [] step = "io_dev_close_storage" -> "get_device_size"
      [] step = "get_device_size" -> "register_io_dev_mmc"
      [] step = "lookup" -> "register_io_dev_mmc"
      [] step = "register_io_dev_mmc" -> "io_dev_open_mmc"
      [] step = "io_dev_open_mmc" -> "register_io_dev_stm32image"
      [] step = "register_io_dev_stm32image" -> "io_dev_open_stm32image"
      [] step = "io_dev_open_stm32image" -> "done"

\* the order of the statements of stm32mp1_io_setup: the step that follows
\* a step that neither halted nor left through the default case
next_step(step) ==
    CASE step = "print_boot_device" -> "register_io_dev_dummy"
      [] step = "register_io_dev_dummy" -> "io_dev_open_dummy"
      [] step = "io_dev_open_dummy" -> "switch"
      [] step = "switch" -> "register_io_dev_block"
      [] step = "register_io_dev_block" -> "io_dev_open_block"
      [] step = "io_dev_open_block" -> "partition_init"
      [] step = "partition_init" -> "io_dev_close_storage"
      [] step = "io_dev_close_storage" -> "get_device_size"
      [] step = "get_device_size" -> "lookup"
      [] step = "lookup" -> "register_io_dev_mmc"
      [] step = "register_io_dev_mmc" -> "io_dev_open_mmc"
      [] step = "io_dev_open_mmc" -> "register_io_dev_stm32image"
      [] step = "register_io_dev_stm32image" -> "io_dev_open_stm32image"
      [] step = "io_dev_open_stm32image" -> "done"

\* a variant of boot_device_halts in which the default case of lines
\* 158-161 does not call panic()
boot_device_never_halts(kind) == FALSE

\* lines 151-162: print_boot_device calls panic() on an interface kind it
\* does not list
boot_device_halts(kind) == ~recognized(kind)

\* print_boot_device(boot_context), called at line 181
print_boot_device ==
    /\ pc = "print_boot_device"
    /\ LET kind == boot_context.boot_interface_selected
           inst == IF boot_context.boot_interface_instance # 0
                   THEN {"Instance"} ELSE {}
           msg == CASE kind = FLASH_SD -> "Using SDMMC"
                    [] kind = FLASH_EMMC -> "Using EMMC"
                    [] OTHER -> "Boot interface not found"
       IN  IF boot_device_halts(kind)
           THEN /\ log' = log \cup {msg}
                /\ pc' = "panic"
           ELSE /\ log' = log \cup {msg} \cup inst
                /\ pc' = next_step("print_boot_device")
    /\ UNCHANGED <<build_vars, con_vars, dev_vars, mmc_vars, part_vars,
                   resolver_vars, faults>>

\* lines 189-190
register_io_dev_dummy ==
    /\ pc = "register_io_dev_dummy"
    /\ \E ok \in {TRUE} \cup (IF CanFail THEN {FALSE} ELSE {}) :
          /\ dummy_dev_con' = IF ok THEN "dummy_dev_connector"
                              ELSE dummy_dev_con
          /\ faults' = IF ok THEN faults ELSE faults + 1
          /\ pc' = after_assert(ok, next_step("register_io_dev_dummy"))
    /\ UNCHANGED <<build_vars, mmc_dev_con, stm32image_dev_con, dev_vars,
                   mmc_vars, part_vars, resolver_vars, log>>

\* lines 192-194
io_dev_open_dummy ==
    /\ pc = "io_dev_open_dummy"
    /\ \E o \in OpenOutcomes(dummy_dev_con) :
          io_dev_open(dummy_dev_con, "dummy_dev_handle", o,
                      next_step("io_dev_open_dummy"))
    /\ UNCHANGED <<build_vars, con_vars, closed_devs, mmc_vars, part_vars,
                   resolver_vars, log>>

\* lines 203-210: media type and default base of the interface kind
mmc_dev_type(kind) ==
    IF kind = FLASH_EMMC THEN MMC_IS_EMMC ELSE MMC_IS_SD

\* a variant of mmc_default_instance with the two defaults exchanged
mmc_default_instance_swapped(kind) ==
    IF kind = FLASH_EMMC THEN STM32MP1_SDMMC1_BASE ELSE STM32MP1_SDMMC2_BASE

mmc_default_instance(kind) ==
    IF kind = FLASH_EMMC THEN STM32MP1_SDMMC2_BASE ELSE STM32MP1_SDMMC1_BASE

\* lines 212-226: register base of the instance
reg_base(kind, instance) ==
    CASE instance = 1 -> STM32MP1_SDMMC1_BASE
      [] instance = 2 -> STM32MP1_SDMMC2_BASE
      [] instance = 3 -> STM32MP1_SDMMC3_BASE
      [] OTHER -> mmc_default_instance(kind)

\* line 223: the default case of the inner switch warns
instance_warning(instance) ==
    IF instance \in {1, 2, 3} THEN {}
    ELSE {"SDMMC instance not found, using default"}

\* a variant of after_mmc_init that goes on after a failed init
after_mmc_init_ignoring_failure(ok) == next_step("switch")

\* lines 229-233: a failed driver init calls panic()
after_mmc_init(ok) == IF ok THEN next_step("switch") ELSE "panic"

\* lines 196-233 and 286-289: the switch on the interface kind, up to the
\* driver init
stm32_sdmmc2_mmc_init ==
    /\ pc = "switch"
    /\ LET kind == boot_context.boot_interface_selected
           instance == boot_context.boot_interface_instance
       IN  IF recognized(kind)
           THEN /\ params' = [reg_base |-> reg_base(kind, instance),
                              mmc_dev_type |-> mmc_dev_type(kind)]
                /\ \E ok \in {TRUE} \cup (IF CanFail THEN {FALSE} ELSE {}) :
                      /\ mmc_inited' = ok
                      /\ faults' = IF ok THEN faults ELSE faults + 1
                      /\ log' = log \cup instance_warning(instance)
                                    \cup (IF ok THEN {}
                                          ELSE {"SDMMC init failed"})
                      /\ pc' = after_mmc_init(ok)
           ELSE /\ log' = log \cup {"Boot interface not supported"}
                /\ pc' = "done"
                /\ UNCHANGED <<mmc_vars, faults>>
    /\ UNCHANGED <<build_vars, con_vars, dev_vars, part_vars, resolver_vars>>

\* lines 236-239
register_io_dev_block ==
    /\ pc = "register_io_dev_block"
    /\ \E ok \in {TRUE} \cup (IF CanFail THEN {FALSE} ELSE {}) :
          /\ mmc_dev_con' = IF ok THEN "block_dev_connector" ELSE mmc_dev_con
          /\ faults' = IF ok THEN faults ELSE faults + 1
          /\ pc' = IF ok THEN next_step("register_io_dev_block") ELSE "panic"
    /\ UNCHANGED <<build_vars, dummy_dev_con, stm32image_dev_con, dev_vars,
                   mmc_vars, part_vars, resolver_vars, log>>

\* lines 241-244
io_dev_open_block ==
    /\ pc = "io_dev_open_block"
    /\ \E o \in OpenOutcomes(mmc_dev_con) :
          io_dev_open(mmc_dev_con, "storage_dev_handle", o,
                      next_step("io_dev_open_block"))
    /\ UNCHANGED <<build_vars, con_vars, closed_devs, mmc_vars, part_vars,
                   resolver_vars, log>>

----------------------------------------------------------------------------
(* plat_get_image_source, lines 297-313, and the check procedures *)

\* lines 134-147: each check hands one handle slot to io_dev_init(); the
\* value of the definition is the handle it hands over, the result of
\* io_dev_init() is the backend's
open_dummy == dummy_dev_handle
\* a variant of open_image that hands the storage slot to io_dev_init()
open_image_probing_storage == storage_dev_handle

open_image == image_dev_handle
open_storage == storage_dev_handle

check_handle(check) ==
    CASE check = "open_dummy" -> open_dummy
      [] check = "open_image" -> open_image
      [] check = "open_storage" -> open_storage

\* a variant of store_dev_handle without the test of line 307
store_dev_handle_always(policy, rc) == handles[policy.dev_handle]

\* lines 307-310: the outputs are stored only when the check returned 0
store_dev_handle(policy, rc) ==
    IF rc = 0 THEN handles[policy.dev_handle] ELSE "UNWRITTEN"

store_image_spec(policy, rc) ==
    IF rc = 0 THEN policy.image_spec ELSE "UNWRITTEN"

\* One call plat_get_image_source(image_id, &res_dev_handle, &res_image_spec)
\* whose check returns rc; the caller goes on at next.  res_dev_handle and
\* res_image_spec are the caller's output variables, locals of the caller
\* that are fresh ("UNWRITTEN") at each call and stay so unless lines
\* 308-309 store to them.  An identifier past the array fails the assert at
\* line 303; where assert() is compiled out, and for an element of the
\* array without initializer (check is a null pointer), the behaviour is
\* undefined: the call aborts (ub = "abort") or returns rc after reading
\* arbitrary memory (ub = "return").
plat_get_image_source(image_id, rc, ub, next) ==
    LET in_range == image_id < ARRAY_SIZE_policies
        policy == IF in_range THEN policies[image_id] ELSE NoPolicy
    IN  /\ called_id' = image_id
        /\ IF ~in_range /\ ENABLE_ASSERTIONS
           THEN /\ pc' = "panic"
                /\ probed' = NULL
                /\ check_rc' = NONE
                /\ ret' = NONE
                /\ res_image_spec' = "UNWRITTEN"
                /\ res_dev_handle' = "UNWRITTEN"
           ELSE IF policy.check = NULL
           THEN IF ub = "abort"
                THEN /\ pc' = "panic"
                     /\ probed' = NULL
                     /\ check_rc' = NONE
                     /\ ret' = NONE
                     /\ res_image_spec' = "UNWRITTEN"
                     /\ res_dev_handle' = "UNWRITTEN"
                ELSE /\ pc' = next
                     /\ probed' = GARBAGE
                     /\ check_rc' = rc
                     /\ ret' = rc
                     /\ res_image_spec' = IF rc # 0 THEN "UNWRITTEN"
                                          ELSE IF in_range THEN policy.image_spec
                                          ELSE GARBAGE
                     /\ res_dev_handle' = IF rc # 0 THEN "UNWRITTEN"
                                          ELSE GARBAGE
           ELSE /\ ub = "return"
                /\ pc' = next
                /\ probed' = check_handle(policy.check)
                /\ check_rc' = rc
                /\ ret' = rc
                /\ res_image_spec' = store_image_spec(policy, rc)
                /\ res_dev_handle' = store_dev_handle(policy, rc)

\* a variant of load_image in which the check opens the fixed-offset device
\* afresh and stores the new handle in its slot
load_image_reopening ==
    /\ pc = "done"
    /\ called_id = NONE
    /\ \E image_id \in ImageIdInputs, rc \in {0} \cup Errors,
          ub \in {"return", "abort"} :
          plat_get_image_source(image_id, rc, ub, "done")
    /\ handles' = [handles EXCEPT !["dummy_dev_handle"] = "dummy_dev_reopened"]
    /\ UNCHANGED <<build_vars, con_vars, open_devs, closed_devs, writes,
                   mmc_vars, part_vars, log, faults>>

\* the outer loader resolving an image after stm32mp1_io_setup has returned
load_image ==
    /\ pc = "done"
    /\ called_id = NONE
    /\ \E image_id \in ImageIdInputs, rc \in {0} \cup Errors,
          ub \in {"return", "abort"} :
          plat_get_image_source(image_id, rc, ub, "done")
    /\ UNCHANGED <<build_vars, con_vars, dev_vars, mmc_vars, part_vars, log,
                   faults>>

\* the outer loader returning from the function that made the call: its
\* output variables go out of scope
load_image_return ==
    /\ pc = "done"
    /\ called_id # NONE
    /\ called_id' = NONE
    /\ probed' = NULL
    /\ check_rc' = NONE
    /\ ret' = NONE
    /\ res_dev_handle' = "UNWRITTEN"
    /\ res_image_spec' = "UNWRITTEN"
    /\ UNCHANGED <<build_vars, pc, con_vars, dev_vars, mmc_vars, part_vars,
                   log, faults>>

----------------------------------------------------------------------------
(* stm32mp1_io_setup, continued *)

\* line 246: partition_init(GPT_IMAGE_ID) resolves the GPT image through
\* plat_get_image_source and, when that succeeds, reads the table; its
\* result is ignored by the caller
partition_init ==
    /\ pc = "partition_init"
    /\ \E rc \in {0} \cup Errors :
          /\ plat_get_image_source(GPT_IMAGE_ID, rc, "return",
                                   next_step("partition_init"))
          /\ partitions' \in (IF rc = 0 THEN PartitionTables ELSE {<< >>})
    /\ partition_done' = TRUE
    /\ UNCHANGED <<build_vars, con_vars, dev_vars, mmc_vars,
                   stm32image_dev_info_spec, backfilled, log, faults>>

\* lines 248-249
io_dev_close_storage ==
    /\ pc = "io_dev_close_storage"
    /\ \E o \in CloseOutcomes(storage_dev_handle) :
          io_dev_close(storage_dev_handle, o,
                       next_step("io_dev_close_storage"))
    /\ UNCHANGED <<build_vars, con_vars, handles, writes, mmc_vars, part_vars,
                   resolver_vars, log>>

\* lines 251-252
stm32_sdmmc2_mmc_get_device_size ==
    /\ pc = "get_device_size"
    /\ \E size \in DeviceSizes :
          stm32image_dev_info_spec' =
              [stm32image_dev_info_spec EXCEPT !.device_size = size]
    /\ pc' = next_step("get_device_size")
    /\ UNCHANGED <<build_vars, con_vars, dev_vars, mmc_vars, partitions,
                   partition_done, backfilled, resolver_vars, log, faults>>

\* a variant of find_entry that takes the first entry of the table, whatever
\* its name
find_entry_any_name(part) ==
    IF partitions = << >> THEN NULL_ENTRY ELSE partitions[1]

\* line 256
find_entry(part) == get_partition_entry(part.name)

\* a variant of backfill with the two offset fields exchanged
backfill_swapped(part, entry) ==
    [part EXCEPT !.part_offset = 0, !.bkp_offset = entry.start]

\* lines 263-264
backfill(part, entry) ==
    [part EXCEPT !.part_offset = entry.start, !.bkp_offset = 0]

\* lines 254-265: the loop over part_info; it stops at the first name the
\* table does not hold
lookup_partitions ==
    /\ pc = "lookup"
    /\ LET part_info == stm32image_dev_info_spec.part_info
           missing == {idx \in DOMAIN part_info :
                          find_entry(part_info[idx]) = NULL_ENTRY}
           stop == IF missing = {} THEN IMG_IDX_NUM
                   ELSE CHOOSE i \in missing : \A j \in missing : i <= j
       IN  /\ stm32image_dev_info_spec' =
                 [stm32image_dev_info_spec EXCEPT !.part_info =
                     [idx \in DOMAIN part_info |->
                         IF idx < stop
                         THEN backfill(part_info[idx],
                                       find_entry(part_info[idx]))
                         ELSE part_info[idx]]]
           /\ backfilled' = backfilled \cup {idx \in DOMAIN part_info :
                                                idx < stop}
           /\ IF missing = {}
              THEN /\ pc' = next_step("lookup")
                   /\ log' = log
              ELSE /\ pc' = "panic"
                   /\ log' = log \cup {"Partition not found"}
    /\ UNCHANGED <<build_vars, con_vars, dev_vars, mmc_vars, partitions,
                   partition_done, resolver_vars, faults>>

\* lines 271-272
register_io_dev_mmc ==
    /\ pc = "register_io_dev_mmc"
    /\ \E ok \in {TRUE} \cup (IF CanFail THEN {FALSE} ELSE {}) :
          /\ mmc_dev_con' = IF ok THEN "mmc_dev_connector" ELSE mmc_dev_con
          /\ faults' = IF ok THEN faults ELSE faults + 1
          /\ pc' = after_assert(ok, next_step("register_io_dev_mmc"))
    /\ UNCHANGED <<build_vars, dummy_dev_con, stm32image_dev_con, dev_vars,
                   mmc_vars, part_vars, resolver_vars, log>>

\* a variant of mmc_slot that stores the streaming handle in the slot of the
\* container device
mmc_slot_of_image == "image_dev_handle"

\* line 274: the slot the streaming-access handle is stored in
mmc_slot == "storage_dev_handle"

\* lines 274-275
io_dev_open_mmc ==
    /\ pc = "io_dev_open_mmc"
    /\ \E o \in OpenOutcomes(mmc_dev_con) :
          io_dev_open(mmc_dev_con, mmc_slot, o,
                      next_step("io_dev_open_mmc"))
    /\ UNCHANGED <<build_vars, con_vars, closed_devs, mmc_vars, part_vars,
                   resolver_vars, log>>

\* lines 277-278
register_io_dev_stm32image ==
    /\ pc = "register_io_dev_stm32image"
    /\ \E ok \in {TRUE} \cup (IF CanFail THEN {FALSE} ELSE {}) :
          /\ stm32image_dev_con' = IF ok THEN "stm32image_dev_connector"
                                   ELSE stm32image_dev_con
          /\ faults' = IF ok THEN faults ELSE faults + 1
          /\ pc' = after_assert(ok, next_step("register_io_dev_stm32image"))
    /\ UNCHANGED <<build_vars, dummy_dev_con, mmc_dev_con, dev_vars, mmc_vars,
                   part_vars, resolver_vars, log>>

\* lines 280-283
io_dev_open_stm32image ==
    /\ pc = "io_dev_open_stm32image"
    /\ \E o \in OpenOutcomes(stm32image_dev_con) :
          io_dev_open(stm32image_dev_con, "image_dev_handle", o,
                      next_step("io_dev_open_stm32image"))
    /\ UNCHANGED <<build_vars, con_vars, closed_devs, mmc_vars, part_vars,
                   resolver_vars, log>>

stm32mp1_io_setup ==
    \/ print_boot_device
    \/ register_io_dev_dummy
    \/ io_dev_open_dummy
    \/ stm32_sdmmc2_mmc_init
    \/ register_io_dev_block
    \/ io_dev_open_block
    \/ partition_init
    \/ io_dev_close_storage
    \/ stm32_sdmmc2_mmc_get_device_size
    \/ lookup_partitions
    \/ register_io_dev_mmc
    \/ io_dev_open_mmc
    \/ register_io_dev_stm32image
    \/ io_dev_open_stm32image

Next ==
    \/ stm32mp1_io_setup
    \/ load_image
    \/ load_image_return

Spec == Init /\ [][Next]_vars

\* stm32mp1_io_setup run on its own: the function is straight-line code, so
\* while it has neither returned nor halted its next statement is executed
FairSetup ==
    Init /\ [][stm32mp1_io_setup]_vars /\ WF_vars(stm32mp1_io_setup)

\* the place of a step in the statement order of stm32mp1_io_setup; the two
\* ends (returned, halted) come last
Rank(step) ==
    CASE step = "print_boot_device" -> 0
      [] step = "register_io_dev_dummy" -> 1
      [] step = "io_dev_open_dummy" -> 2
      [] step = "switch" -> 3
      [] step = "register_io_dev_block" -> 4
      [] step = "io_dev_open_block" -> 5
      [] step = "partition_init" -> 6
      [] step = "io_dev_close_storage" -> 7
      [] step = "get_device_size" -> 8
      [] step = "lookup" -> 9
      [] step = "register_io_dev_mmc" -> 10
      [] step = "io_dev_open_mmc" -> 11
      [] step = "register_io_dev_stm32image" -> 12
      [] step = "io_dev_open_stm32image" -> 13
      [] step \in {"done", "panic"} -> 14

----------------------------------------------------------------------------
(* Properties *)

kind == boot_context.boot_interface_selected
instance == boot_context.boot_interface_instance
part_info == stm32image_dev_info_spec.part_info

\* a step in which plat_get_image_source is called
CallStep == called_id = NONE /\ called_id' # NONE

\* C1: the block-access session on storage_dev_handle is closed before the
\* streaming-access session is opened: the two sessions are never open
\* together, and the streaming session is only ever open after the
\* block-access session was opened and closed (storage role Unopened ->
\* OpenedForTableRead -> Closed -> OpenedForStreaming).
C1_BlockClosedBeforeStreaming ==
    /\ ~("block_dev" \in open_devs /\ "mmc_dev" \in open_devs)
    /\ "mmc_dev" \in open_devs => "block_dev" \in closed_devs

\* C2: for an identifier with a policy entry whose check returns 0, the call
\* returns 0 and stores the image_spec of the entry and the current value
\* of the slot the entry references, a value stm32mp1_io_setup stored there.
C2_SuccessReturnsPolicy ==
    [][(CallStep /\ called_id' \in PolicyIds /\ check_rc' = 0)
         => /\ ret' = 0
            /\ res_image_spec' = policies[called_id'].image_spec
            /\ res_dev_handle' = handles'[policies[called_id'].dev_handle]
            /\ writes'[policies[called_id'].dev_handle] > 0]_vars

\* C3: for an identifier with a policy entry whose check returns a non-zero
\* code, the call returns that code, stores nothing in the caller's outputs
\* and changes no handle slot.
C3_FailureReturnsCode ==
    [][(CallStep /\ called_id' \in PolicyIds /\ check_rc' # 0)
         => /\ ret' = check_rc'
            /\ ret' \in Errors
            /\ res_image_spec' = "UNWRITTEN"
            /\ res_dev_handle' = "UNWRITTEN"
            /\ handles' = handles
            /\ writes' = writes]_vars

C3_Witness ==
    /\ called_id \in PolicyIds
    /\ pc = "done"
    /\ check_rc \in Errors
    /\ ret = check_rc
    /\ res_dev_handle = "UNWRITTEN"

\* C4: with an interface kind that is neither SD nor eMMC the setup opens the
\* fixed-offset device, reports that the interface is not supported and
\* returns, with no peripheral, block, streaming or container device set up.
C4_UnsupportedInterfaceReturns ==
    (~recognized(kind) /\ pc \in {"done", "panic"})
        => /\ pc = "done"
           /\ "dummy_dev" \in open_devs
           /\ "Boot interface not supported" \in log
           /\ ~mmc_inited
           /\ open_devs = {"dummy_dev"}

\* C5: with an interface kind that is neither SD nor eMMC the setup halts in
\* print_boot_device with a diagnostic: it never returns and no device is
\* registered, opened or initialized.
C5_UnrecognizedInterfaceHalts ==
    ~recognized(kind)
        => /\ pc \in {"print_boot_device", "panic"}
           /\ pc = "panic" => "Boot interface not found" \in log
           /\ dummy_dev_con = NULL /\ mmc_dev_con = NULL
           /\ stm32image_dev_con = NULL
           /\ open_devs = {}
           /\ \A slot \in SlotNames : handles[slot] = NULL /\ writes[slot] = 0
           /\ params = NoParams /\ ~mmc_inited

C5_Witness ==
    /\ ~recognized(kind)
    /\ pc = "panic"
    /\ "Boot interface not found" \in log

\* the table holds no entry with the name of part_info[idx]
NameMissing(idx) ==
    \A i \in DOMAIN partitions : partitions[i].name # part_info[idx].name

\* C6: when the discovered table lacks the name of an image resolved by
\* name, the setup halts at the lookup with a diagnostic and neither the
\* streaming-access device nor the container device is registered or opened.
C6_MissingPartitionHalts ==
    (partition_done /\ \E idx \in DOMAIN part_info : NameMissing(idx))
        => /\ pc \in {"io_dev_close_storage", "get_device_size", "lookup",
                      "panic"}
           /\ (stm32image_dev_info_spec.device_size # 0 /\ pc # "lookup")
                 => (pc = "panic" /\ "Partition not found" \in log)
           /\ "mmc_dev" \notin open_devs
           /\ "stm32image_dev" \notin open_devs
           /\ mmc_dev_con # "mmc_dev_connector"
           /\ stm32image_dev_con = NULL
           /\ writes["image_dev_handle"] = 0
           /\ writes["storage_dev_handle"] <= 1

C6_Witness ==
    /\ pc = "panic"
    /\ "Partition not found" \in log
    /\ Len(partitions) = MaxParts
    /\ \E idx \in DOMAIN part_info : NameMissing(idx)

\* C7: the parameters given to the driver init are a fixed function of
\* (kind, instance): instances 1, 2, 3 select SDMMC1, SDMMC2, SDMMC3 without
\* warning, every other instance the default of the kind (SDMMC2 for eMMC,
\* SDMMC1 for SD) with a warning; the media type is that of the kind.
C7_ParamsOfKindAndInstance ==
    params # NoParams
        => /\ instance = 1 => params.reg_base = STM32MP1_SDMMC1_BASE
           /\ instance = 2 => params.reg_base = STM32MP1_SDMMC2_BASE
           /\ instance = 3 => params.reg_base = STM32MP1_SDMMC3_BASE
           /\ (instance \notin {1, 2, 3} /\ kind = FLASH_EMMC)
                 => params.reg_base = STM32MP1_SDMMC2_BASE
           /\ (instance \notin {1, 2, 3} /\ kind = FLASH_SD)
                 => params.reg_base = STM32MP1_SDMMC1_BASE
           /\ ("SDMMC instance not found, using default" \in log)
                 <=> instance \notin {1, 2, 3}
           /\ (params.mmc_dev_type = MMC_IS_EMMC) <=> (kind = FLASH_EMMC)
           /\ (params.mmc_dev_type = MMC_IS_SD) <=> (kind = FLASH_SD)

C7_Witness ==
    /\ mmc_inited
    /\ kind = FLASH_EMMC
    /\ instance = MaxInstance
    /\ params.reg_base = STM32MP1_SDMMC2_BASE
    /\ "SDMMC instance not found, using default" \in log

\* C8: after a setup that returned, part_offset of every image resolved by
\* name is the start offset of the (first) table entry with the name of the
\* image, and bkp_offset is 0.
C8_BackfilledOffsets ==
    pc = "done"
        => \A idx \in DOMAIN part_info :
              /\ part_info[idx].bkp_offset = 0
              /\ \E i \in DOMAIN partitions :
                    /\ partitions[i].name = part_info[idx].name
                    /\ partitions[i].start = part_info[idx].part_offset
                    /\ \A j \in 1 .. (i - 1) :
                          partitions[j].name # part_info[idx].name

C8_Witness ==
    /\ pc = "done"
    /\ Len(partitions) = 2
    /\ partitions[1].name # BL33_IMAGE_NAME
    /\ partitions[2].name = BL33_IMAGE_NAME
    /\ partitions[1].start # partitions[2].start
    /\ part_info[IMG_IDX_BL33].part_offset = partitions[2].start
    /\ part_info[IMG_IDX_BL33].bkp_offset = 0

\* C9: the container device is opened only after partition discovery has
\* run, the device size is stored in the container spec and the offset of
\* every named image is back-filled.
C9_ContainerAfterBackfill ==
    ("stm32image_dev" \in open_devs \/ writes["image_dev_handle"] > 0)
        => /\ partition_done
           /\ stm32image_dev_info_spec.device_size \in DeviceSizes
           /\ backfilled = DOMAIN part_info
           /\ \A idx \in DOMAIN part_info : ~NameMissing(idx)

C9_Witness ==
    /\ "stm32image_dev" \in open_devs
    /\ image_dev_handle = "stm32image_dev"
    /\ backfilled = DOMAIN part_info

C11_ResolveMutatesNothing ==
    [][pc = "done"
         => /\ handles' = handles
            /\ policies' = policies
            /\ stm32image_dev_info_spec' = stm32image_dev_info_spec
            /\ partitions' = partitions
            /\ open_devs' = open_devs
            /\ (CallStep /\ called_id' \in PolicyIds /\ check_rc' = 0)
                  => /\ res_dev_handle' =
                           handles[policies[called_id'].dev_handle]
                     /\ res_image_spec' = policies[called_id'].image_spec]_vars

C11_Witness ==
    /\ pc = "done"
    /\ called_id = BL33_IMAGE_ID
    /\ ret = 0
    /\ res_dev_handle = image_dev_handle
    /\ res_dev_handle = "stm32image_dev"
    /\ res_image_spec = "bl33_partition_spec"
    /\ backfilled = DOMAIN part_info

\* C12: when the init of the peripheral driver fails the setup halts with a
\* diagnostic: the block-access device is neither registered nor opened,
\* partition discovery does not run and the setup does not return.
C12_InitFailureHalts ==
    (params # NoParams /\ ~mmc_inited)
        => /\ pc = "panic"
           /\ "SDMMC init failed" \in log
           /\ mmc_dev_con = NULL
           /\ storage_dev_handle = NULL
           /\ writes["storage_dev_handle"] = 0
           /\ "block_dev" \notin (open_devs \cup closed_devs)
           /\ ~partition_done
           /\ partitions = << >>

C12_Witness ==
    /\ params # NoParams
    /\ ~mmc_inited
    /\ pc = "panic"
    /\ faults = 1
    /\ "dummy_dev" \in open_devs

\* C13: a failure of a registration (dummy, block, mmc, stm32image) or of the
\* open of the fixed-offset device halts the setup at that step: the step
\* that follows it is never reached with the failed result.
C13_RegistrationFailureHalts ==
    [][(/\ pc \in {"register_io_dev_dummy", "io_dev_open_dummy",
                   "register_io_dev_block", "register_io_dev_mmc",
                   "register_io_dev_stm32image"}
        /\ faults' = faults + 1)
         => pc' = "panic"]_vars

\* C14: once stm32mp1_io_setup has returned, each of the three handle slots
\* the policy table references holds an open session, and the session in
\* the storage slot is the streaming-access one.
C14_SlotsOpenAfterSetup ==
    pc = "done"
        => /\ \A slot \in SlotNames : handles[slot] \in open_devs
           /\ dummy_dev_handle = "dummy_dev"
           /\ storage_dev_handle = "mmc_dev"
           /\ image_dev_handle = "stm32image_dev"

\* C15: a check procedure is only ever run on a slot that holds an open
\* session: the resolve made by partition discovery probes the open
\* block-access session, no resolve is made between the close of that
\* session and the return of the setup, and a storage-backed resolve made
\* after the return probes the open streaming-access session.
C15_CheckOnOpenSlot ==
    [][(CallStep /\ called_id' \in PolicyIds /\ check_rc' # NONE)
         => /\ probed' \in open_devs
            /\ pc \in {"partition_init", "done"}
            /\ pc = "partition_init"
                  => called_id' = GPT_IMAGE_ID /\ probed' = "block_dev"
            /\ (pc = "done" /\ policies[called_id'].check = "open_storage")
                  => probed' = "mmc_dev"]_vars

\* C16: a call of plat_get_image_source with an identifier past the end of
\* the policy table halts: no check is run, neither output is stored and no
\* result code is returned.
C16_OutOfRangeHalts ==
    (called_id # NONE /\ called_id >= ARRAY_SIZE_policies)
        => /\ pc = "panic"
           /\ probed = NULL
           /\ check_rc = NONE
           /\ ret = NONE
           /\ res_dev_handle = "UNWRITTEN"
           /\ res_image_spec = "UNWRITTEN"

\* C17: each entry of the policy table pairs a handle slot with the check
\* that probes that same slot (BL2 and BL32: dummy slot and open_dummy;
\* BL33: image slot and open_image; GPT and STM32 image: storage slot and
\* open_storage), so a call that returns 0 returns the handle its check has
\* just probed.
C17_CheckProbesReturnedSlot ==
    /\ \A id \in PolicyIds :
          /\ check_handle(policies[id].check) = handles[policies[id].dev_handle]
          /\ <<policies[id].dev_handle, policies[id].check>> =
                CASE id \in {BL2_IMAGE_ID, BL32_IMAGE_ID}
                        -> <<"dummy_dev_handle", "open_dummy">>
                  [] id = BL33_IMAGE_ID
                        -> <<"image_dev_handle", "open_image">>
                  [] id \in {GPT_IMAGE_ID, STM32_IMAGE_ID}
                        -> <<"storage_dev_handle", "open_storage">>
    /\ (called_id \in PolicyIds /\ ret = 0) => res_dev_handle = probed

C17_Witness ==
    /\ pc = "done"
    /\ called_id = BL33_IMAGE_ID
    /\ ret = 0
    /\ check_rc = 0
    /\ probed = "stm32image_dev"
    /\ res_dev_handle = "stm32image_dev"
    /\ storage_dev_handle = "mmc_dev"
    /\ dummy_dev_handle = "dummy_dev"

\* C18: every identifier below the number of elements of policies, that is
\* every identifier the assert of plat_get_image_source lets through, has
\* an entry with a check procedure and a handle slot.
C18_AcceptedIdHasEntry ==
    (called_id # NONE /\ called_id < ARRAY_SIZE_policies)
        => /\ policies[called_id].check # NULL
           /\ policies[called_id].dev_handle # NULL

\* C19: every run of stm32mp1_io_setup ends, either returned or halted, and
\* stays so; each step moves on to a later statement, so no stage is
\* performed twice, and the interface and the parameters derived from it
\* are never replaced by others.
C19_SetupEndsEachStageOnce ==
    /\ [][/\ Rank(pc') > Rank(pc)
          /\ boot_context' = boot_context
          /\ params # NoParams => params' = params]_vars
    /\ <>[](pc = "done" \/ pc = "panic")

C19_Witness ==
    /\ pc = "panic"
    /\ faults > 0
    /\ mmc_inited
    /\ "block_dev" \in closed_devs
    /\ writes["storage_dev_handle"] = 1

====
